---- MODULE Spec2Model ----
(***************************************************************************)
(* Model of mr_browser_use: the session registry (_browser_sessions) with  *)
(* start_browser / get_browser_client / stop_browser, the HTTP status      *)
(* route and BrowserClient.ensure_tab_handler.                             *)
(*                                                                         *)
(* The functions are asyncio coroutines.  A coroutine runs without         *)
(* interruption until it awaits something that really suspends (here: the  *)
(* loop.run_in_executor calls); every action below is one such             *)
(* uninterrupted segment, or one function run by the executor thread.      *)
(*                                                                         *)
(* Spec         : commands dispatched concurrently (two kinds of caller).  *)
(* SpecSeq      : commands dispatched one after the other, every context.  *)
(* SpecIdentity : the first segment of every entry point, every context.   *)
(***************************************************************************)
EXTENDS Integers, Sequences, FiniteSets, TLC

\* ---------------------------------------------------------------- bounds
\* Number of concurrently running command coroutines.
NumTasks == 2
\* Number of Chrome drivers that may be launched in one behaviour.
MaxDrivers == 2
\* Number of quit calls one driver may receive in one behaviour.
MaxQuits == 2

\* Number of elements a document can hold.
MaxElems == 2
\* Number of windows the browser may open in one behaviour.
MaxWindows == 3
\* The number of tokens in a key combination.
MaxKeys == 3

Tasks == 1..NumTasks

\* ------------------------------------------------------- caller contexts
\* A context is None, an object without a `user` attribute, or an object
\* whose `user` attribute is a string (the empty string is falsy).
UserNames == {"", "alice", "default"}

Contexts ==
    {[kind |-> "None", user |-> ""], [kind |-> "NoUserAttr", user |-> ""]}
        \cup {[kind |-> "User", user |-> u] : u \in UserNames}

\* `context and hasattr(context, "user") and context.user`
HasUser(ctx) == ctx.kind = "User" /\ ctx.user # ""

\* session_id as computed by get_browser_client
SessionIdOfGet(ctx) ==
    IF HasUser(ctx) THEN "browser_" \o ctx.user ELSE "browser_default"

\* session_id as computed by start_browser
SessionIdOfStart(ctx) ==
    IF HasUser(ctx) THEN "browser_" \o ctx.user ELSE "browser_default"

\* (mutation) stop_browser formats the key without the default branch
SessionIdOfStop_NoDefault(ctx) ==
    IF HasUser(ctx) THEN "browser_" \o ctx.user ELSE "browser_None"

\* session_id as computed by stop_browser
SessionIdOfStop(ctx) ==
    IF HasUser(ctx) THEN "browser_" \o ctx.user ELSE "browser_default"

\* ------------------------------------------------------------- results
NoResult == [kind |-> "none", status |-> "", message |-> "", client |-> 0]

\* a result dictionary {"status": ..., "message": ...}
Dict(status, message) ==
    [kind |-> "dict", status |-> status, message |-> message, client |-> 0]

\* a BrowserClient object (identified by the number of its driver)
ClientRef(c) == [kind |-> "client", status |-> "", message |-> "", client |-> c]

\* a JSONResponse of the HTTP status route
Json(status) == [kind |-> "json", status |-> status, message |-> "", client |-> 0]

\* --------------------------------------------------------------- state
VARIABLES
    sessions,   \* _browser_sessions: session_id -> client (a partial function)
    drivers,    \* the drivers launched so far, in launch order
    clients,    \* the BrowserClient objects: client -> its fields
    tasks,      \* the running coroutines
    browser,    \* one driver's browser: its windows and their documents
    tracker,    \* that client's TabHandler (original_window, known_windows)
    ret         \* what the last BrowserClient/TabHandler call did and returned

vars == <<sessions, drivers, clients, tasks, browser, tracker, ret>>

\* The registry and its coroutines; the browser of one session.
regvars == <<sessions, drivers, clients, tasks>>
pagevars == <<browser, tracker, ret>>

Idle ==
    [op |-> "", ctx |-> [kind |-> "None", user |-> ""], session_id |-> "",
     pc |-> "idle", client |-> 0, attempts |-> 0, result |-> NoResult]

\* ------------------------------------------- the browser of one session
\* The elements a document can hold, by identity; document order is the
\* order of the identities.
Elems == 1..MaxElems
\* The element IDs a caller may pass: those a discovery pass can assign
\* (0 .. MaxElems-1) and one it never assigns.
ElementIds == 0..MaxElems
\* The window handles the driver hands out; a handle is never reused.
Handles == 1..MaxWindows

KindOf(e) == IF e = 1 THEN "checkbox" ELSE IF e = 2 THEN "select" ELSE "other"

\* A document: the attached elements, the JavaScript global
\* window.browserUseElements (absent in a document no discovery pass has
\* run in; otherwise ID i is held at index i+1) and the checked elements.
BlankPage ==
    [url |-> "a", dom |-> Elems, has_table |-> FALSE, table |-> <<>>,
     checked |-> {}]

\* A result dictionary of a BrowserClient or TabHandler method.  handle = 0,
\* original_handle = 0 and new_tab_opened = "" stand for a dictionary without
\* that key.  `tabs` is the list get_all_tabs returns in place of a
\* dictionary (status "value").
Result(status, message) ==
    [status |-> status, message |-> message, handle |-> 0,
     new_tab_opened |-> "", original_handle |-> 0, tabs |-> <<>>]

\* No TabHandler yet: BrowserClient.__init__ sets tab_handler = None.
NoTracker == [exists |-> FALSE, original_window |-> 0, known_windows |-> {}]

NoCall ==
    [op |-> "", id |-> -1, arg |-> "", result |-> Result("", ""), acts |-> <<>>]

\* A freshly launched browser: one window showing a fresh document.
InitBrowser ==
    /\ browser = [windows |-> <<1>>, active |-> 1, opened |-> 1,
                  pages |-> [h \in {1} |-> BlankPage]]
    /\ tracker = NoTracker
    /\ ret = NoCall

Init ==
    /\ sessions = <<>>
    /\ drivers = <<>>
    /\ clients = <<>>
    /\ tasks = [t \in Tasks |-> Idle]
    /\ InitBrowser

\* ------------------------------------------------------- dictionary ops
Put(f, k, v) == [x \in DOMAIN f \cup {k} |-> IF x = k THEN v ELSE f[x]]
Del(f, k) == [x \in DOMAIN f \ {k} |-> f[x]]

SetTask(t, r) == tasks' = [tasks EXCEPT ![t] = r]

\* What the caller of operation `op` gets when the start_browser it ran (or
\* was inlined into) returns the dictionary r.
\*   start_browser      : r itself
\*   get_browser_client : `return await start_browser(context)`, r itself
\*   browser_status     : `client.driver` on a dict raises AttributeError,
\*                        caught: {"status": "not_running"}
StartReturn(op, r) == IF op = "browser_status" THEN Json("not_running") ELSE r

\* ------------------------------------------------------- start_browser
\* (mutation) start_browser without its "already exists" check
StartBrowserEnter_NoCheck(t, op, ctx) ==
    SetTask(t, [Idle EXCEPT !.op = op, !.ctx = ctx,
                   !.session_id = SessionIdOfStart(ctx), !.pc = "detect"])

\* First segment of start_browser: the registry check.
StartBrowserEnter(t, op, ctx) ==
    LET sid == SessionIdOfStart(ctx) IN
    IF sid \in DOMAIN sessions
    THEN SetTask(t, [Idle EXCEPT !.op = op, !.ctx = ctx, !.session_id = sid,
                        !.pc = "done",
                        !.result = StartReturn(op,
                                     Dict("ok", "Browser is already running"))])
    ELSE SetTask(t, [Idle EXCEPT !.op = op, !.ctx = ctx, !.session_id = sid,
                        !.pc = "detect"])

StartBrowser(t, ctx) ==
    /\ tasks[t].pc = "idle"
    /\ StartBrowserEnter(t, "start_browser", ctx)
    /\ UNCHANGED <<sessions, drivers, clients>>

\* The executor has run detect_chrome_version (it catches every exception);
\* the coroutine resumes and hands create_driver to the executor.
DetectChromeVersion(t) ==
    /\ tasks[t].pc = "detect"
    /\ SetTask(t, [tasks[t] EXCEPT !.pc = "create"])
    /\ UNCHANGED <<sessions, drivers, clients>>

\* A freshly launched driver.
NewDriver == [state |-> "running", quits |-> 0]

\* create_driver, in the executor thread, up to the end of the first try
\* block: the profile directory, the options and the import of
\* webdriver_manager (outside the try), then ChromeDriverManager().install()
\* and uc.Chrome (inside it).
\*   "setup_failed"   : a statement before the try raised
\*   "ok"             : the primary attempt returned a driver
\*   "primary_failed" : the primary attempt raised; the fallback is next
CreateDriverPrimary(t, outcome) ==
    /\ tasks[t].pc = "create"
    /\ CASE outcome = "setup_failed" ->
              /\ SetTask(t, [tasks[t] EXCEPT !.pc = "create_failed"])
              /\ UNCHANGED drivers
         [] outcome = "ok" ->
              /\ Len(drivers) < MaxDrivers
              /\ drivers' = Append(drivers, NewDriver)
              /\ SetTask(t, [tasks[t] EXCEPT !.pc = "created",
                                !.attempts = 1,
                                !.client = Len(drivers) + 1])
         [] outcome = "primary_failed" ->
              /\ SetTask(t, [tasks[t] EXCEPT !.pc = "fallback", !.attempts = 1])
              /\ UNCHANGED drivers
    /\ UNCHANGED <<sessions, clients>>

\* create_driver's except branch: the direct approach with fresh options.
CreateDriverFallback(t, ok) ==
    /\ tasks[t].pc = "fallback"
    /\ IF ok
       THEN /\ Len(drivers) < MaxDrivers
            /\ drivers' = Append(drivers, NewDriver)
            /\ SetTask(t, [tasks[t] EXCEPT !.pc = "created",
                              !.attempts = 2,
                              !.client = Len(drivers) + 1])
       ELSE /\ SetTask(t, [tasks[t] EXCEPT !.pc = "create_failed",
                              !.attempts = 2])
            /\ UNCHANGED drivers
    /\ UNCHANGED <<sessions, clients>>

\* BrowserClient.__init__
NewClient == [tab_handler |-> "None", tab_methods |-> FALSE]

\* The coroutine resumes with the driver: it creates the client, stores it
\* in the registry and awaits the executor once more.
RegisterClient(t) ==
    /\ tasks[t].pc = "created"
    /\ clients' = Put(clients, tasks[t].client, NewClient)
    /\ sessions' = Put(sessions, tasks[t].session_id, tasks[t].client)
    /\ SetTask(t, [tasks[t] EXCEPT !.pc = "stabilize"])
    /\ UNCHANGED drivers

\* integrate_tab_handler(browser_client): the client after the call, or
\* "AttributeError" when `browser_client.tab_handler.detect_new_tabs` is
\* read from a tab_handler that is None.  BrowserClient.__init__ always sets
\* the attribute tab_handler, so the first branch is never taken.
integrate_tab_handler(cl) ==
    IF cl.tab_methods
    THEN [raised |-> FALSE, client |-> cl]
    ELSE IF cl.tab_handler = "None"
         THEN [raised |-> TRUE, client |-> cl]
         ELSE [raised |-> FALSE, client |-> [cl EXCEPT !.tab_methods = TRUE]]

\* Last segment of start_browser: the tab handler integration and the result.
IntegrateTabHandler(t) ==
    /\ tasks[t].pc = "stabilize"
    /\ LET c == tasks[t].client
           r == integrate_tab_handler(clients[c])
       IN /\ clients' = [clients EXCEPT ![c] = r.client]
          /\ SetTask(t, [tasks[t] EXCEPT !.pc = "done",
                !.result = StartReturn(tasks[t].op,
                     IF r.raised
                     THEN Dict("error", "Failed to start browser")
                     ELSE Dict("ok", "Browser started successfully"))])
    /\ UNCHANGED <<sessions, drivers>>

\* create_driver raised: the inner except of start_browser.
CreateDriverFailed(t) ==
    /\ tasks[t].pc = "create_failed"
    /\ SetTask(t, [tasks[t] EXCEPT !.pc = "done",
          !.result = StartReturn(tasks[t].op,
                                 Dict("error", "Failed to start browser"))])
    /\ UNCHANGED <<sessions, drivers, clients>>

\* --------------------------------------------------- get_browser_client
GetBrowserClientEnter(t, op, ctx) ==
    LET sid == SessionIdOfGet(ctx) IN
    IF sid \in DOMAIN sessions
    THEN SetTask(t, [Idle EXCEPT !.op = op, !.ctx = ctx, !.session_id = sid,
                        !.pc = "done", !.client = sessions[sid],
                        !.result = ClientRef(sessions[sid])])
    ELSE StartBrowserEnter(t, op, ctx)

GetBrowserClient(t, ctx) ==
    /\ tasks[t].pc = "idle"
    /\ GetBrowserClientEnter(t, "get_browser_client", ctx)
    /\ UNCHANGED <<sessions, drivers, clients>>

\* --------------------------------------------------------- stop_browser
\* (mutation) stop_browser reports a missing session as a failure
StopBrowser_AbsentIsError(t, ctx) ==
    /\ tasks[t].pc = "idle"
    /\ LET sid == SessionIdOfStop(ctx) IN
       IF sid \notin DOMAIN sessions
       THEN SetTask(t, [Idle EXCEPT !.op = "stop_browser", !.ctx = ctx,
                           !.session_id = sid, !.pc = "done",
                           !.result = Dict("error", "Failed to stop browser")])
       ELSE SetTask(t, [Idle EXCEPT !.op = "stop_browser", !.ctx = ctx,
                           !.session_id = sid, !.pc = "quit",
                           !.client = sessions[sid]])
    /\ UNCHANGED <<sessions, drivers, clients>>

\* First segment of stop_browser: the registry check.
StopBrowser(t, ctx) ==
    /\ tasks[t].pc = "idle"
    /\ LET sid == SessionIdOfStop(ctx) IN
       IF sid \notin DOMAIN sessions
       THEN SetTask(t, [Idle EXCEPT !.op = "stop_browser", !.ctx = ctx,
                           !.session_id = sid, !.pc = "done",
                           !.result = Dict("ok", "No browser running")])
       ELSE SetTask(t, [Idle EXCEPT !.op = "stop_browser", !.ctx = ctx,
                           !.session_id = sid, !.pc = "quit",
                           !.client = sessions[sid]])
    /\ UNCHANGED <<sessions, drivers, clients>>

\* client.driver.quit, in the executor thread; it may raise.
DriverQuit(t, ok) ==
    /\ tasks[t].pc = "quit"
    /\ drivers[tasks[t].client].quits < MaxQuits
    /\ LET d == tasks[t].client IN
       drivers' = [drivers EXCEPT ![d].quits = @ + 1,
                                  ![d].state = IF ok THEN "quit" ELSE @]
    /\ SetTask(t, [tasks[t] EXCEPT !.pc = IF ok THEN "quit_ok" ELSE "quit_raised"])
    /\ UNCHANGED <<sessions, clients>>

\* The coroutine resumes after quit: `del _browser_sessions[session_id]`
\* (a KeyError when the key is gone), or the except branch.
StopBrowserFinish(t) ==
    /\ tasks[t].pc \in {"quit_ok", "quit_raised"}
    /\ LET sid == tasks[t].session_id IN
       IF tasks[t].pc = "quit_ok" /\ sid \in DOMAIN sessions
       THEN /\ sessions' = Del(sessions, sid)
            /\ SetTask(t, [tasks[t] EXCEPT !.pc = "done",
                  !.result = Dict("ok", "Browser stopped successfully")])
       ELSE /\ UNCHANGED sessions
            /\ SetTask(t, [tasks[t] EXCEPT !.pc = "done",
                  !.result = Dict("error", "Failed to stop browser")])
    /\ UNCHANGED <<drivers, clients>>

\* ------------------------------------------- router.py: browser_status
BrowserStatus(t, ctx) ==
    /\ tasks[t].pc = "idle"
    /\ SetTask(t, [Idle EXCEPT !.op = "browser_status", !.ctx = ctx,
                      !.pc = "deps"])
    /\ UNCHANGED <<sessions, drivers, clients>>

\* check_browser_dependencies has returned; on "ok" the route calls
\* get_browser_client and reads client.driver.current_url.
BrowserStatusCheck(t, deps_ok, url_ok) ==
    /\ tasks[t].pc = "deps"
    /\ LET ctx == tasks[t].ctx
           sid == SessionIdOfGet(ctx)
       IN IF ~deps_ok
          THEN SetTask(t, [tasks[t] EXCEPT !.pc = "done",
                              !.result = Json("dependency_error")])
          ELSE IF sid \in DOMAIN sessions
               THEN SetTask(t, [tasks[t] EXCEPT !.pc = "done",
                      !.session_id = sid, !.client = sessions[sid],
                      !.result =
                          IF url_ok /\ drivers[sessions[sid]].state = "running"
                          THEN Json("running") ELSE Json("not_running")])
               ELSE GetBrowserClientEnter(t, "browser_status", ctx)
    /\ UNCHANGED <<sessions, drivers, clients>>

\* ------------------------------------- BrowserClient.ensure_tab_handler
\* Called by the tab commands on the client they got from the registry.
\* TabHandler.__init__ reads driver.current_window_handle, which raises on
\* a driver that is gone (and may raise on a live one).
ensure_tab_handler(c, handle_ok) ==
    /\ c \in {sessions[k] : k \in DOMAIN sessions}
    /\ clients[c].tab_handler = "None"
    /\ IF handle_ok /\ drivers[c].state = "running"
       THEN LET cl == [clients[c] EXCEPT !.tab_handler = "TabHandler"]
            IN clients' = [clients EXCEPT ![c] = integrate_tab_handler(cl).client]
       ELSE UNCHANGED clients
    /\ UNCHANGED <<sessions, drivers, tasks>>

\* The caller takes the result; the coroutine is over.
Return(t) ==
    /\ tasks[t].pc = "done"
    /\ SetTask(t, Idle)
    /\ UNCHANGED <<sessions, drivers, clients>>

\* ------------------------------------------------------ specifications
\* The coroutine steps that follow a call, and the executor's functions.
Step(t) ==
    \/ DetectChromeVersion(t)
    \/ \E o \in {"setup_failed", "ok", "primary_failed"} : CreateDriverPrimary(t, o)
    \/ \E ok \in BOOLEAN : CreateDriverFallback(t, ok)
    \/ RegisterClient(t)
    \/ IntegrateTabHandler(t)
    \/ CreateDriverFailed(t)
    \/ \E ok \in BOOLEAN : DriverQuit(t, ok)
    \/ StopBrowserFinish(t)
    \/ \E d \in BOOLEAN, u \in BOOLEAN : BrowserStatusCheck(t, d, u)
    \/ Return(t)

\* A command is dispatched to coroutine t with context ctx.
Call(t, ctx) ==
    \/ StartBrowser(t, ctx)
    \/ GetBrowserClient(t, ctx)
    \/ StopBrowser(t, ctx)
    \/ BrowserStatus(t, ctx)

\* The contexts of the concurrent specification: an unauthenticated caller
\* and one authenticated user.
ConcurrentContexts == {ctx \in Contexts : ctx.kind = "None" \/ ctx.user = "alice"}

\* Concurrent dispatch: the host starts commands while others are suspended.
Next ==
    \/ \E t \in Tasks, ctx \in ConcurrentContexts :
            Call(t, ctx) /\ UNCHANGED pagevars
    \/ \E t \in Tasks : Step(t) /\ UNCHANGED pagevars
    \/ \E c \in 1..MaxDrivers, ok \in BOOLEAN :
            ensure_tab_handler(c, ok) /\ UNCHANGED pagevars

Spec == Init /\ [][Next]_vars

\* Sequential dispatch: a command starts when no other coroutine is running
\* ("calls in succession").
NoneRunning == \A u \in Tasks : tasks[u].pc = "idle"

NextSeq ==
    \/ \E t \in Tasks, ctx \in Contexts :
            NoneRunning /\ Call(t, ctx) /\ UNCHANGED pagevars
    \/ \E t \in Tasks : Step(t) /\ UNCHANGED pagevars
    \/ \E c \in 1..MaxDrivers, ok \in BOOLEAN :
            NoneRunning /\ ensure_tab_handler(c, ok) /\ UNCHANGED pagevars

SpecSeq == Init /\ [][NextSeq]_vars

\* Identity derivation: the first segment of every entry point, applied to
\* every context, on a registry holding any of the sessions a run of Spec
\* can leave behind.
RegistryOf(ks) ==
    /\ sessions = [k \in {ks[i] : i \in DOMAIN ks} |->
                      CHOOSE i \in DOMAIN ks : ks[i] = k]
    /\ drivers = [i \in DOMAIN ks |-> NewDriver]
    /\ clients = [i \in DOMAIN ks |-> NewClient]

InitIdentity ==
    /\ \E ks \in {<<>>, <<"browser_default">>, <<"browser_alice">>,
                   <<"browser_default", "browser_alice">>} : RegistryOf(ks)
    /\ tasks = [t \in Tasks |-> Idle]
    /\ InitBrowser

NextIdentity ==
    \/ \E t \in Tasks, ctx \in Contexts : Call(t, ctx) /\ UNCHANGED pagevars
    \/ \E t \in Tasks, d \in BOOLEAN, u \in BOOLEAN :
            BrowserStatusCheck(t, d, u) /\ UNCHANGED pagevars
    \/ \E t \in Tasks : Return(t) /\ UNCHANGED pagevars

SpecIdentity == InitIdentity /\ [][NextIdentity]_vars

\* =================================================================
\* BrowserClient: discovery, the element operations, navigation
\* =================================================================
\* The document the driver's current window shows.
ActiveOpen == browser.active \in DOMAIN browser.pages
ActivePage == browser.pages[browser.active]

\* Python None as an argument value.
None == "None"

\* str(e) of the exceptions the driver raises.
\* Reading key `id` of the undefined global is a TypeError, which names the
\* key it was reading.
JavascriptException(id) ==
    "javascript error: Cannot read properties of undefined (reading '"
        \o ToString(id) \o "')"
StaleElementReferenceException == "stale element reference"
UnexpectedTagNameException == "Select only works on <select> elements"
WebDriverException == "unknown error"

NotFound(id) == "Element " \o ToString(id) \o " not found"

\* What a method did: the document afterwards, the dictionary returned and
\* the interactions issued on elements.
Out(p, result, acts) == [page |-> p, result |-> result, acts |-> acts]
Act(kind, e, arg) == [kind |-> kind, elem |-> e, arg |-> arg]

\* `return window.browserUseElements[id];` : a script error when the global
\* is undefined, undefined (elem = 0) when the table has no such key.
Lookup(p, id) ==
    IF ~p.has_table THEN [raised |-> TRUE, elem |-> 0]
    ELSE IF id + 1 \in DOMAIN p.table
         THEN [raised |-> FALSE, elem |-> p.table[id + 1]]
         ELSE [raised |-> FALSE, elem |-> 0]

\* The browser's reaction to a click on element e: a checkbox toggles.
Click(p, e) ==
    IF KindOf(e) = "checkbox"
    THEN [p EXCEPT !.checked = IF e \in @ THEN @ \ {e} ELSE @ \cup {e}]
    ELSE p

\* The shape click_element, type_text, hover, right_click and double_click
\* share: look the element up, act on it through Selenium (which refuses an
\* element detached from the document), report.
Interaction(p, id, kind, arg, after, done) ==
    LET l == Lookup(p, id)
    IN  IF l.raised THEN Out(p, Result("error", JavascriptException(id)), <<>>)
        ELSE IF l.elem = 0 THEN Out(p, Result("error", NotFound(id)), <<>>)
        ELSE IF l.elem \notin p.dom
             THEN Out(p, Result("error", StaleElementReferenceException), <<>>)
        ELSE Out(after, Result("ok", done), <<Act(kind, l.elem, arg)>>)

click_element_NoMissingCheck(p, id) ==
    LET l == Lookup(p, id)
    IN  IF l.raised THEN Out(p, Result("error", JavascriptException(id)), <<>>)
        ELSE IF l.elem = 0
             THEN Out(p, Result("error",
                          "'NoneType' object has no attribute 'click'"), <<>>)
        ELSE Out(Click(p, l.elem),
                 Result("ok", "Clicked element " \o ToString(id)),
                 <<Act("click", l.elem, "")>>)

click_element(p, id) ==
    Interaction(p, id, "click", "", Click(p, Lookup(p, id).elem),
                "Clicked element " \o ToString(id))

type_text(p, id, text) ==
    Interaction(p, id, "send_keys", text, p,
                "Typed text into element " \o ToString(id))

hover(p, id) ==
    Interaction(p, id, "move_to_element", "", p,
                "Hovered over element " \o ToString(id))

right_click(p, id) ==
    Interaction(p, id, "context_click", "", p,
                "Right-clicked on element " \o ToString(id))

double_click(p, id) ==
    Interaction(p, id, "double_click", "", p,
                "Double-clicked on element " \o ToString(id))

set_checkbox_AlwaysClicks(p, id, checked) ==
    LET l == Lookup(p, id)
    IN  IF l.raised THEN Out(p, Result("error", JavascriptException(id)), <<>>)
        ELSE IF l.elem = 0
             THEN Out(p, Result("error", NotFound(id) \o " or not a checkbox"),
                      <<>>)
        ELSE Out(Click(p, l.elem),
                 Result("ok", "Set checkbox " \o ToString(id) \o " to "
                                  \o (IF checked THEN "True" ELSE "False")),
                 <<Act("click", l.elem, "")>>)

\* The script clicks when `element.checked !== checked`; `checked` is
\* undefined on an element that is not a checkbox.
set_checkbox(p, id, checked) ==
    LET l == Lookup(p, id)
        differs == IF KindOf(l.elem) = "checkbox"
                   THEN (l.elem \in p.checked) # checked
                   ELSE TRUE
    IN  IF l.raised THEN Out(p, Result("error", JavascriptException(id)), <<>>)
        ELSE IF l.elem = 0
             THEN Out(p, Result("error", NotFound(id) \o " or not a checkbox"),
                      <<>>)
        ELSE Out(IF differs THEN Click(p, l.elem) ELSE p,
                 Result("ok", "Set checkbox " \o ToString(id) \o " to "
                                  \o (IF checked THEN "True" ELSE "False")),
                 IF differs THEN <<Act("click", l.elem, "")>> ELSE <<>>)

NoOptionMessage == "Either option_text or option_value must be provided"

select_option_NoElse(p, id, option_text, option_value) ==
    LET l == Lookup(p, id)
    IN  IF l.raised THEN Out(p, Result("error", JavascriptException(id)), <<>>)
        ELSE IF l.elem = 0 THEN Out(p, Result("error", NotFound(id)), <<>>)
        ELSE IF l.elem \notin p.dom
             THEN Out(p, Result("error", StaleElementReferenceException), <<>>)
        ELSE IF KindOf(l.elem) # "select"
             THEN Out(p, Result("error", UnexpectedTagNameException), <<>>)
        ELSE IF option_text # None
             THEN Out(p, Result("ok", "Selected option with text '"
                                          \o option_text \o "'"),
                      <<Act("select_by_visible_text", l.elem, option_text)>>)
        ELSE Out(p, Result("ok", "Selected option with value '"
                                     \o option_value \o "'"),
                 <<Act("select_by_value", l.elem, option_value)>>)

\* Selenium's Select refuses an element that is not a <select>.
select_option(p, id, option_text, option_value) ==
    LET l == Lookup(p, id)
    IN  IF l.raised THEN Out(p, Result("error", JavascriptException(id)), <<>>)
        ELSE IF l.elem = 0 THEN Out(p, Result("error", NotFound(id)), <<>>)
        ELSE IF l.elem \notin p.dom
             THEN Out(p, Result("error", StaleElementReferenceException), <<>>)
        ELSE IF KindOf(l.elem) # "select"
             THEN Out(p, Result("error", UnexpectedTagNameException), <<>>)
        ELSE IF option_text # None
             THEN Out(p, Result("ok", "Selected option with text '"
                                          \o option_text \o "'"),
                      <<Act("select_by_visible_text", l.elem, option_text)>>)
        ELSE IF option_value # None
             THEN Out(p, Result("ok", "Selected option with value '"
                                          \o option_value \o "'"),
                      <<Act("select_by_value", l.elem, option_value)>>)
        ELSE Out(p, Result("error", NoOptionMessage), <<>>)

drag_and_drop_SourceOnly(p, source_id, target_id) ==
    LET src == Lookup(p, source_id)
        tgt == Lookup(p, target_id)
    IN  IF src.raised
        THEN Out(p, Result("error", JavascriptException(source_id)), <<>>)
        ELSE IF src.elem = 0
             THEN Out(p, Result("error", "Source or target element not found"),
                      <<>>)
        ELSE Out(p, Result("ok", "Dragged element " \o ToString(source_id)
                                     \o " to element " \o ToString(target_id)),
                 <<Act("drag_and_drop", src.elem, ToString(tgt.elem))>>)

drag_and_drop(p, source_id, target_id) ==
    LET src == Lookup(p, source_id)
        tgt == Lookup(p, target_id)
    IN  IF src.raised
        THEN Out(p, Result("error", JavascriptException(source_id)), <<>>)
        ELSE IF src.elem = 0 \/ tgt.elem = 0
             THEN Out(p, Result("error", "Source or target element not found"),
                      <<>>)
        ELSE IF src.elem \notin p.dom \/ tgt.elem \notin p.dom
             THEN Out(p, Result("error", StaleElementReferenceException), <<>>)
        ELSE Out(p, Result("ok", "Dragged element " \o ToString(source_id)
                                     \o " to element " \o ToString(target_id)),
                 <<Act("drag_and_drop", src.elem, ToString(tgt.elem))>>)

get_text(p, id) ==
    LET l == Lookup(p, id)
    IN  IF l.raised THEN Out(p, Result("error", JavascriptException(id)), <<>>)
        ELSE IF l.elem = 0 THEN Out(p, Result("error", NotFound(id)), <<>>)
        ELSE Out(p, Result("ok", ""), <<>>)

\* The attributes the elements carry: every element has a class, none has
\* an href.
AttributeNames == {"class", "href"}
HasAttribute(e, name) == name = "class"

\* getAttribute returns null for an attribute the element does not carry.
get_attribute(p, id, attribute_name) ==
    LET l == Lookup(p, id)
    IN  IF l.raised THEN Out(p, Result("error", JavascriptException(id)), <<>>)
        ELSE IF l.elem = 0 \/ ~HasAttribute(l.elem, attribute_name)
             THEN Out(p, Result("error", NotFound(id)), <<>>)
        ELSE Out(p, Result("ok", ""), <<>>)

scroll_to_element(p, id) ==
    LET l == Lookup(p, id)
    IN  IF l.raised THEN Out(p, Result("error", JavascriptException(id)), <<>>)
        ELSE IF l.elem = 0 THEN Out(p, Result("error", NotFound(id)), <<>>)
        ELSE Out(p, Result("ok", "Scrolled to element " \o ToString(id)),
                 <<Act("scrollIntoView", l.elem, "")>>)

\* findInteractiveElements of dom-analyzer.js: the interactive elements in
\* document order, numbered from 0.
findInteractiveElements(dom) ==
    CHOOSE q \in [1..Cardinality(dom) -> dom] :
        \A i, j \in 1..Cardinality(dom) : i < j => q[i] < q[j]

\* `window.browserUseElements = {}` and then the analyzer fills it.
update_state(p) ==
    Out([p EXCEPT !.has_table = TRUE, !.table = findInteractiveElements(p.dom)],
        Result("ok", ""), <<>>)

\* ------------------------------------------------------------ navigation
\* URLs: two documents, one of them also addressed with a fragment.
Urls == {"a", "a#x", "b"}
DocOf(url) == IF url = "b" THEN "b" ELSE "a"
HasFragment(url) == url = "a#x"

\* A load gives the window a new document, hence a new global object.
Load(url) == [BlankPage EXCEPT !.url = url]

\* driver.get(url): a URL that differs from the current one only by its
\* fragment is navigated to within the document.
Get(p, url) ==
    IF DocOf(url) = DocOf(p.url) /\ HasFragment(url)
    THEN [p EXCEPT !.url = url]
    ELSE Load(url)

\* driver.back() / driver.forward(): the history entry reached belongs to
\* the current document (same) or to another one.
Traverse(p, to, same) == IF same THEN [p EXCEPT !.url = to] ELSE Load(to)

navigate_to(p, url, ok) ==
    IF ok THEN Out(Get(p, url), Result("ok", ""), <<>>)
    ELSE Out(p, Result("error", WebDriverException), <<>>)

go_back(p, to, same, ok) ==
    IF ok THEN Out(Traverse(p, to, same), Result("ok", "Navigated back"), <<>>)
    ELSE Out(p, Result("error", WebDriverException), <<>>)

go_forward(p, to, same, ok) ==
    IF ok THEN Out(Traverse(p, to, same), Result("ok", "Navigated forward"), <<>>)
    ELSE Out(p, Result("error", WebDriverException), <<>>)

refresh(p, ok) ==
    IF ok THEN Out(Load(p.url), Result("ok", "Page refreshed"), <<>>)
    ELSE Out(p, Result("error", WebDriverException), <<>>)

\* --------------------------------------------------------------- actions
\* A BrowserClient method runs on the document of the current window.
Do(op, id, arg, o) ==
    /\ ActiveOpen
    /\ browser' = [browser EXCEPT !.pages[browser.active] = o.page]
    /\ ret' = [op |-> op, id |-> id, arg |-> arg, result |-> o.result,
               acts |-> o.acts]
    /\ UNCHANGED tracker
    /\ UNCHANGED regvars

UpdateState == Do("update_state", -1, "", update_state(ActivePage))
ClickElement(id) == Do("click_element", id, "", click_element(ActivePage, id))
TypeText(id) == Do("type_text", id, "abc", type_text(ActivePage, id, "abc"))
Hover(id) == Do("hover", id, "", hover(ActivePage, id))
RightClick(id) == Do("right_click", id, "", right_click(ActivePage, id))
DoubleClick(id) == Do("double_click", id, "", double_click(ActivePage, id))
SetCheckbox(id, checked) ==
    Do("set_checkbox", id, IF checked THEN "True" ELSE "False",
       set_checkbox(ActivePage, id, checked))
SelectOption_ValueWins(id, option_text, option_value) ==
    Do("select_option", id, option_text \o "/" \o option_value,
       select_option(ActivePage, id,
                     IF option_value # None THEN None ELSE option_text,
                     option_value))

SelectOption(id, option_text, option_value) ==
    Do("select_option", id, option_text \o "/" \o option_value,
       select_option(ActivePage, id, option_text, option_value))
DragAndDrop(source_id, target_id) ==
    Do("drag_and_drop", source_id, ToString(target_id),
       drag_and_drop(ActivePage, source_id, target_id))
GetText(id) == Do("get_text", id, "", get_text(ActivePage, id))
GetAttribute(id, name) ==
    Do("get_attribute", id, name, get_attribute(ActivePage, id, name))
ScrollToElement(id) ==
    Do("scroll_to_element", id, "", scroll_to_element(ActivePage, id))

NavigateTo(url, ok) == Do("navigate_to", -1, url, navigate_to(ActivePage, url, ok))
GoBack(to, same, ok) ==
    /\ same => DocOf(to) = DocOf(ActivePage.url)
    /\ Do("go_back", -1, "", go_back(ActivePage, to, same, ok))
GoForward(to, same, ok) ==
    /\ same => DocOf(to) = DocOf(ActivePage.url)
    /\ Do("go_forward", -1, "", go_forward(ActivePage, to, same, ok))
Refresh(ok) == Do("refresh", -1, "", refresh(ActivePage, ok))

\* The page's own scripts attach or detach an element.
DomChange(e) ==
    /\ ActiveOpen
    /\ browser' = [browser EXCEPT !.pages[browser.active].dom =
                       IF e \in @ THEN @ \ {e} ELSE @ \cup {e}]
    /\ UNCHANGED <<tracker, ret>>
    /\ UNCHANGED regvars

\* =================================================================
\* BrowserClient.key_combination
\* =================================================================
\* A Python string is a sequence of characters, a token list a sequence of
\* strings.
Plus == "+"

\* The tokens combinations are drawn from: a named key in two spellings, a
\* mapped letter in both cases, a letter the map does not hold, and the
\* plus key.
KeyTokens ==
    {<<"c", "t", "r", "l">>, <<"C", "t", "r", "L">>, <<"a">>, <<"A">>,
     <<"Q">>, <<Plus>>}

RECURSIVE SeqsUpTo(_, _)
SeqsUpTo(S, n) ==
    IF n = 0 THEN {<<>>}
    ELSE LET shorter == SeqsUpTo(S, n - 1)
         IN  shorter \cup {Append(l, x) : l \in shorter, x \in S}

KeyLists == SeqsUpTo(KeyTokens, MaxKeys)

\* str.lower() on the characters in use.
LowerChar(c) ==
    CASE c = "A" -> "a"
      [] c = "C" -> "c"
      [] c = "L" -> "l"
      [] c = "Q" -> "q"
      [] OTHER -> c
Lower(k) == [i \in DOMAIN k |-> LowerChar(k[i])]

\* The text of a string.
RECURSIVE Text(_)
Text(k) == IF k = <<>> THEN "" ELSE k[1] \o Text(Tail(k))

\* key_map
key_map ==
    (<<"c", "t", "r", "l">> :> "Keys.CONTROL")
    @@ (<<"a", "l", "t">> :> "Keys.ALT")
    @@ (<<"s", "h", "i", "f", "t">> :> "Keys.SHIFT")
    @@ (<<"c", "o", "m", "m", "a", "n", "d">> :> "Keys.COMMAND")
    @@ (<<"e", "n", "t", "e", "r">> :> "Keys.ENTER")
    @@ (<<"t", "a", "b">> :> "Keys.TAB")
    @@ (<<"e", "s", "c", "a", "p", "e">> :> "Keys.ESCAPE")
    @@ (<<"s", "p", "a", "c", "e">> :> "Keys.SPACE")
    @@ (<<"a">> :> "a") @@ (<<"c">> :> "c") @@ (<<"v">> :> "v")
    @@ (<<"x">> :> "x") @@ (<<"z">> :> "z")

\* key_map.get(k.lower(), k)
KeyOf(k) ==
    IF Lower(k) \in DOMAIN key_map THEN key_map[Lower(k)] ELSE Text(k)

\* keys.split("+")
RECURSIVE split(_)
split(keys) ==
    IF \A i \in DOMAIN keys : keys[i] # Plus THEN <<keys>>
    ELSE LET i == CHOOSE i \in DOMAIN keys :
                      keys[i] = Plus /\ \A j \in 1..(i - 1) : keys[j] # Plus
         IN  <<SubSeq(keys, 1, i - 1)>> \o split(SubSeq(keys, i + 1, Len(keys)))

\* '+'.join(keys)
RECURSIVE join(_)
join(keys) ==
    IF keys = <<>> THEN <<>>
    ELSE IF Len(keys) = 1 THEN keys[1]
    ELSE keys[1] \o <<Plus>> \o join(Tail(keys))

\* The two forms of the argument.
Str(chars) == [type |-> "str", val |-> chars]
List(tokens) == [type |-> "list", val |-> tokens]
KeyInputs == {List(l) : l \in KeyLists} \cup {Str(join(l)) : l \in KeyLists}

Reverse(q) == [i \in DOMAIN q |-> q[Len(q) + 1 - i]]

\* The key events of the chain, in the order they were added; they are
\* issued by actions.perform(), which may raise (`ok`).  keys_to_press[-1]
\* raises IndexError on an empty list before anything is issued.
key_combination(p, keys, ok) ==
    LET ks == IF keys.type = "str" THEN split(keys.val) ELSE keys.val
        keys_to_press == [i \in DOMAIN ks |-> KeyOf(ks[i])]
        n == Len(keys_to_press)
        held == SubSeq(keys_to_press, 1, n - 1)
        down == [i \in DOMAIN held |-> Act("key_down", 0, held[i])]
        up == [i \in DOMAIN held |-> Act("key_up", 0, Reverse(held)[i])]
    IN  IF n = 0 THEN Out(p, Result("error", "list index out of range"), <<>>)
        ELSE IF ~ok THEN Out(p, Result("error", WebDriverException), <<>>)
        ELSE Out(p, Result("ok", "Pressed key combination: " \o Text(join(ks))),
                 down \o <<Act("key_down", 0, keys_to_press[n]),
                           Act("key_up", 0, keys_to_press[n])>> \o up)

KeyCombination(keys, ok) ==
    Do("key_combination", -1,
       keys.type \o ":" \o (IF keys.type = "str" THEN Text(keys.val)
                             ELSE Text(join(keys.val))),
       key_combination(ActivePage, keys, ok))

\* Key combinations pressed in one window.
NextKeys ==
    \E keys \in KeyInputs, ok \in BOOLEAN : KeyCombination(keys, ok)

SpecKeys == Init /\ [][NextKeys]_vars

\* =================================================================
\* TabHandler: the tab tracker of one client
\* =================================================================
NoSuchWindowException == "no such window"

\* driver.window_handles as a set; a handle is open when the driver lists it.
LiveSet(b) == {b.windows[i] : i \in DOMAIN b.windows}
IsOpen(b, h) == h \in LiveSet(b)

\* The browser opens a window: the driver lists it last, the current window
\* of the driver stays what it was.
Open(b) ==
    [b EXCEPT !.windows = Append(@, b.opened + 1),
              !.opened = @ + 1,
              !.pages = Put(@, b.opened + 1, BlankPage)]

\* Window h goes away; the driver's current window handle is not changed.
Close(b, h) ==
    [b EXCEPT !.windows = SelectSeq(@, LAMBDA x : x # h),
              !.pages = Del(@, h)]

\* What a TabHandler method did and returned.  status "raised" stands for
\* an exception that leaves the method instead of a return value; status
\* "value" for a return value that is not a dictionary.
TabOut(b, k, result, acts) ==
    [browser |-> b, tracker |-> k, result |-> result, acts |-> acts]
Raised(text) == Result("raised", text)
WithHandle(r, h) == [r EXCEPT !.handle = h]

\* TabHandler.__init__
TabHandler(b) ==
    [exists |-> TRUE, original_window |-> b.active, known_windows |-> {b.active}]

detect_new_tabs_AlwaysSyncs(b, k, pick) ==
    TabOut(b, [k EXCEPT !.known_windows = LiveSet(b)],
           WithHandle(Result("value", ""), pick), <<>>)

\* `pick` is the handle next(iter(new_windows)) yields (0 when the method
\* returns None).
detect_new_tabs(b, k, pick) ==
    LET current_windows == LiveSet(b)
        new_windows == current_windows \ k.known_windows
    IN  IF new_windows # {}
        THEN TabOut(b, [k EXCEPT !.known_windows = current_windows],
                    WithHandle(Result("value", ""), pick), <<>>)
        ELSE TabOut(b, k, Result("value", ""), <<>>)

\* The entries of the list: one per handle of driver.window_handles, in
\* that order.  `visited`: 'is_current' compares the handle with the window
\* the driver is on at that moment instead of the one it was on at the call.
TabList(b, visited) ==
    [i \in DOMAIN b.windows |->
        [handle |-> b.windows[i], url |-> b.pages[b.windows[i]].url,
         is_current |-> visited \/ b.windows[i] = b.active]]

get_all_tabs_CurrentAsVisited(b, k, at, how) ==
    IF ~IsOpen(b, b.active)
    THEN TabOut(b, k, Raised(NoSuchWindowException), <<>>)
    ELSE IF at = 0
    THEN TabOut(b, k, [Result("value", "") EXCEPT !.tabs = TabList(b, TRUE)],
                <<>>)
    ELSE IF how = "switch"
    THEN TabOut([Close(b, b.windows[at]) EXCEPT !.active =
                     IF at > 1 THEN b.windows[at - 1] ELSE b.active],
                k, Raised(NoSuchWindowException), <<>>)
    ELSE TabOut([b EXCEPT !.active = b.windows[at]], k,
                Raised(WebDriverException), <<>>)

\* Nothing in get_all_tabs is inside a try.  It reads
\* driver.current_window_handle, then switches to each handle of
\* driver.window_handles in turn and reads the window's url and title, then
\* switches back.  `at` is the position in the list where a driver call
\* fails (0: none fails): how = "switch" when the window at that position
\* went away after the list was read, so switch_to.window raises; how =
\* "read" when current_url or title raises in that window.
get_all_tabs(b, k, at, how) ==
    IF ~IsOpen(b, b.active)
    THEN TabOut(b, k, Raised(NoSuchWindowException), <<>>)
    ELSE IF at = 0
    THEN TabOut(b, k, [Result("value", "") EXCEPT !.tabs = TabList(b, FALSE)],
                <<>>)
    ELSE IF how = "switch"
    THEN TabOut([Close(b, b.windows[at]) EXCEPT !.active =
                     IF at > 1 THEN b.windows[at - 1] ELSE b.active],
                k, Raised(NoSuchWindowException), <<>>)
    ELSE TabOut([b EXCEPT !.active = b.windows[at]], k,
                Raised(WebDriverException), <<>>)

switch_to_tab_DeadHandleOk(b, k, window_handle) ==
    TabOut([b EXCEPT !.active = window_handle], k,
           WithHandle(Result("ok", ""), window_handle), <<>>)

switch_to_tab(b, k, window_handle) ==
    IF IsOpen(b, window_handle)
    THEN TabOut([b EXCEPT !.active = window_handle], k,
                WithHandle(Result("ok", ""), window_handle), <<>>)
    ELSE TabOut(b, k, Result("error", NoSuchWindowException), <<>>)

\* The last handle the driver lists that is not known, looked for only when
\* the driver lists more handles than are known (0: none).
NewestTab(b, k) ==
    LET unknown == {i \in DOMAIN b.windows : b.windows[i] \notin k.known_windows}
    IN  IF Len(b.windows) > Cardinality(k.known_windows) /\ unknown # {}
        THEN b.windows[CHOOSE i \in unknown : \A j \in unknown : j <= i]
        ELSE 0

switch_to_newest_tab_KeepsNewestOnly(b, k) ==
    LET newest_tab == NewestTab(b, k)
        k2 == [k EXCEPT !.known_windows =
                  IF newest_tab # 0 THEN {newest_tab} ELSE LiveSet(b)]
    IN  IF newest_tab # 0 THEN switch_to_tab(b, k2, newest_tab)
        ELSE IF IsOpen(b, b.active)
             THEN TabOut(b, k2, WithHandle(Result("info", "No new tab found"),
                                           b.active), <<>>)
        ELSE TabOut(b, k2, Raised(NoSuchWindowException), <<>>)

switch_to_newest_tab(b, k) ==
    LET newest_tab == NewestTab(b, k)
        k2 == [k EXCEPT !.known_windows = LiveSet(b)]
    IN  IF newest_tab # 0 THEN switch_to_tab(b, k2, newest_tab)
        ELSE IF IsOpen(b, b.active)
             THEN TabOut(b, k2, WithHandle(Result("info", "No new tab found"),
                                           b.active), <<>>)
        ELSE TabOut(b, k2, Raised(NoSuchWindowException), <<>>)

switch_to_original_tab_FirstOpen(b, k) ==
    switch_to_tab(b, k, IF b.windows # <<>> THEN b.windows[1]
                        ELSE k.original_window)

switch_to_original_tab(b, k) ==
    switch_to_tab(b, k, k.original_window)

close_current_tab(b, k) ==
    IF ~IsOpen(b, b.active)
    THEN TabOut(b, k, Result("error", NoSuchWindowException), <<>>)
    ELSE LET b2 == Close(b, b.active)
             k2 == [k EXCEPT !.known_windows = @ \ {b.active}]
         IN  IF b2.windows # <<>>
             THEN switch_to_tab(b2, k2, b2.windows[1])
             ELSE TabOut(b2, k2, Result("warn", "All tabs closed"), <<>>)

click_and_switch_if_new_tab_StaysPut(b, k, id, opens) ==
    IF ~IsOpen(b, b.active)
    THEN TabOut(b, k, Result("error", NoSuchWindowException), <<>>)
    ELSE
    LET p == b.pages[b.active]
        l == Lookup(p, id)
        clicked == [b EXCEPT !.pages[b.active] = Click(p, l.elem)]
        after == IF opens THEN Open(clicked) ELSE clicked
        new_tabs == LiveSet(after) \ LiveSet(b)
        click == <<Act("click", l.elem, "")>>
    IN  IF l.raised
        THEN TabOut(b, k, Result("error", JavascriptException(id)), <<>>)
        ELSE IF l.elem = 0 THEN TabOut(b, k, Result("error", NotFound(id)), <<>>)
        ELSE IF l.elem \notin p.dom
             THEN TabOut(b, k, Result("error", StaleElementReferenceException),
                         <<>>)
        ELSE IF new_tabs # {}
             THEN LET new_tab == CHOOSE h \in new_tabs : TRUE
                      o == TabOut(after,
                               [k EXCEPT !.known_windows = LiveSet(after)],
                               WithHandle(Result("ok", ""), new_tab), <<>>)
                  IN  [o EXCEPT !.acts = click,
                                !.result.new_tab_opened =
                                    IF o.result.status = "ok" THEN "True" ELSE @,
                                !.result.original_handle =
                                    IF o.result.status = "ok"
                                    THEN k.original_window ELSE @]
        ELSE TabOut(after, k,
                    [WithHandle(Result("ok", "Element clicked, no new tab opened"),
                                b.active) EXCEPT !.new_tab_opened = "False"],
                    click)

\* `opens`: the click makes the browser open a window.
click_and_switch_if_new_tab(b, k, id, opens) ==
    IF ~IsOpen(b, b.active)
    THEN TabOut(b, k, Result("error", NoSuchWindowException), <<>>)
    ELSE
    LET p == b.pages[b.active]
        l == Lookup(p, id)
        clicked == [b EXCEPT !.pages[b.active] = Click(p, l.elem)]
        after == IF opens THEN Open(clicked) ELSE clicked
        new_tabs == LiveSet(after) \ LiveSet(b)
        click == <<Act("click", l.elem, "")>>
    IN  IF l.raised
        THEN TabOut(b, k, Result("error", JavascriptException(id)), <<>>)
        ELSE IF l.elem = 0 THEN TabOut(b, k, Result("error", NotFound(id)), <<>>)
        ELSE IF l.elem \notin p.dom
             THEN TabOut(b, k, Result("error", StaleElementReferenceException),
                         <<>>)
        ELSE IF new_tabs # {}
             THEN LET new_tab == CHOOSE h \in new_tabs : TRUE
                      o == switch_to_tab(after,
                               [k EXCEPT !.known_windows = LiveSet(after)],
                               new_tab)
                  IN  [o EXCEPT !.acts = click,
                                !.result.new_tab_opened =
                                    IF o.result.status = "ok" THEN "True" ELSE @,
                                !.result.original_handle =
                                    IF o.result.status = "ok"
                                    THEN k.original_window ELSE @]
        ELSE TabOut(after, k,
                    [WithHandle(Result("ok", "Element clicked, no new tab opened"),
                                b.active) EXCEPT !.new_tab_opened = "False"],
                    click)

\* --------------------------------------------------------------- actions
TabHandlerInit_Rebuilds ==
    /\ IsOpen(browser, browser.active)
    /\ tracker' = TabHandler(browser)
    /\ UNCHANGED <<browser, ret>>
    /\ UNCHANGED regvars

\* ensure_tab_handler creating the tracker: TabHandler.__init__ reads
\* driver.current_window_handle (on a closed window it raises and the client
\* keeps tab_handler = None).
TabHandlerInit ==
    /\ ~tracker.exists
    /\ IsOpen(browser, browser.active)
    /\ tracker' = TabHandler(browser)
    /\ UNCHANGED <<browser, ret>>
    /\ UNCHANGED regvars

\* A TabHandler method runs on the driver and on the tracker's fields.
DoTab(op, id, arg, o) ==
    /\ tracker.exists
    /\ browser' = o.browser
    /\ tracker' = o.tracker
    /\ ret' = [op |-> op, id |-> id, arg |-> arg, result |-> o.result,
               acts |-> o.acts]
    /\ UNCHANGED regvars

DetectNewTabs(pick) ==
    /\ IF LiveSet(browser) \subseteq tracker.known_windows
       THEN pick = 0
       ELSE pick \in LiveSet(browser) \ tracker.known_windows
    /\ DoTab("detect_new_tabs", -1, "", detect_new_tabs(browser, tracker, pick))
GetAllTabs(at, how) ==
    /\ at \in 0..Len(browser.windows)
    /\ at = 0 => how = "switch"
    /\ (at # 0 /\ how = "switch") => Len(browser.windows) > 1
    /\ DoTab("get_all_tabs", -1, "", get_all_tabs(browser, tracker, at, how))
SwitchToTab(h) ==
    DoTab("switch_to_tab", -1, ToString(h), switch_to_tab(browser, tracker, h))
SwitchToNewestTab ==
    DoTab("switch_to_newest_tab", -1, "", switch_to_newest_tab(browser, tracker))
SwitchToOriginalTab ==
    DoTab("switch_to_original_tab", -1, "",
          switch_to_original_tab(browser, tracker))
CloseCurrentTab ==
    DoTab("close_current_tab", -1, "", close_current_tab(browser, tracker))
ClickAndSwitchIfNewTab(id, opens) ==
    /\ opens => browser.opened < MaxWindows
    /\ DoTab("click_and_switch_if_new_tab", id, "",
             click_and_switch_if_new_tab(browser, tracker, id, opens))

\* A page script or the person at the browser opens a window.
WindowOpens ==
    /\ browser.opened < MaxWindows
    /\ browser' = Open(browser)
    /\ UNCHANGED <<tracker, ret>>
    /\ UNCHANGED regvars

\* A page script or the person at the browser closes window h, one of
\* several (closing the last window ends the browser).
WindowCloses(h) ==
    /\ IsOpen(browser, h)
    /\ Len(browser.windows) > 1
    /\ browser' = Close(browser, h)
    /\ UNCHANGED <<tracker, ret>>
    /\ UNCHANGED regvars

\* ------------------------------------------------------ specifications
\* The element operations of one client on one window; no click opens a
\* window.
NextElements ==
    \/ UpdateState
    \/ \E id \in ElementIds : ClickElement(id)
    \/ \E id \in ElementIds : TypeText(id)
    \/ \E id \in ElementIds : Hover(id)
    \/ \E id \in ElementIds : RightClick(id)
    \/ \E id \in ElementIds : DoubleClick(id)
    \/ \E id \in ElementIds, checked \in BOOLEAN : SetCheckbox(id, checked)
    \/ \E id \in ElementIds, t \in {None, "Two"}, v \in {None, "2"} :
            SelectOption(id, t, v)
    \/ \E s \in ElementIds, t \in ElementIds : DragAndDrop(s, t)
    \/ \E id \in ElementIds : GetText(id)
    \/ \E id \in ElementIds, name \in AttributeNames : GetAttribute(id, name)
    \/ \E id \in ElementIds : ScrollToElement(id)
    \/ \E url \in Urls, ok \in BOOLEAN : NavigateTo(url, ok)
    \/ \E to \in Urls, same \in BOOLEAN, ok \in BOOLEAN : GoBack(to, same, ok)
    \/ \E to \in Urls, same \in BOOLEAN, ok \in BOOLEAN : GoForward(to, same, ok)
    \/ \E ok \in BOOLEAN : Refresh(ok)
    \/ \E e \in Elems : DomChange(e)
    \/ TabHandlerInit
    \/ \E id \in ElementIds : ClickAndSwitchIfNewTab(id, FALSE)

SpecElements == Init /\ [][NextElements]_vars

\* The tab operations of one client, its windows opening and closing.
NextTabs ==
    \/ TabHandlerInit
    \/ \E pick \in {0} \cup Handles : DetectNewTabs(pick)
    \/ \E at \in 0..MaxWindows, how \in {"switch", "read"} : GetAllTabs(at, how)
    \/ \E h \in Handles : SwitchToTab(h)
    \/ SwitchToNewestTab
    \/ SwitchToOriginalTab
    \/ CloseCurrentTab
    \/ \E id \in ElementIds, opens \in BOOLEAN : ClickAndSwitchIfNewTab(id, opens)
    \/ UpdateState
    \/ WindowOpens
    \/ \E h \in Handles : WindowCloses(h)

SpecTabs == Init /\ [][NextTabs]_vars

\* =================================================================
\* The commands (mod.py): argument checks, then the session, then the client
\* =================================================================
\* The commands that take a single element_id.
ElementCommands ==
    {"browser_click_element", "browser_hover", "browser_right_click",
     "browser_double_click", "browser_set_checkbox",
     "browser_scroll_to_element", "browser_get_text",
     "browser_click_and_handle_new_tab"}

\* The commands with a required argument.
CommandNames ==
    ElementCommands \cup
    {"browser_navigate", "browser_type_text", "browser_select_option",
     "browser_drag_and_drop", "browser_press_key", "browser_key_combination",
     "browser_get_attribute", "browser_switch_to_tab"}

\* The arguments a command checks, in the order of its signature:
\*   browser_type_text(element_id, text)
\*   browser_select_option(element_id, option_text, option_value)
\*   browser_drag_and_drop(source_id, target_id)
\*   browser_get_attribute(element_id, attribute_name)
\*   every other command: its one argument.
Arity(cmd) ==
    IF cmd = "browser_select_option" THEN 3
    ELSE IF cmd \in {"browser_type_text", "browser_drag_and_drop",
                     "browser_get_attribute"} THEN 2
    ELSE 1

\* An argument is None, a value Python takes for false ("": the empty
\* string, the empty list, the number 0) or any other value.
ArgValues == {None, "", "v"}
Falsy(x) == x \in {None, ""}

\* The message of the command's argument check that fails ("" when all pass):
\* `is None` for IDs, text and options, `not x` for the rest.
MissingArgument(cmd, a) ==
    CASE cmd = "browser_navigate" ->
            IF Falsy(a[1]) THEN "URL is required" ELSE ""
      [] cmd \in ElementCommands ->
            IF a[1] = None THEN "Element ID is required" ELSE ""
      [] cmd = "browser_type_text" ->
            IF a[1] = None THEN "Element ID is required"
            ELSE IF a[2] = None THEN "Text is required" ELSE ""
      [] cmd = "browser_select_option" ->
            IF a[1] = None THEN "Element ID is required"
            ELSE IF a[2] = None /\ a[3] = None THEN NoOptionMessage ELSE ""
      [] cmd = "browser_drag_and_drop" ->
            IF a[1] = None \/ a[2] = None
            THEN "Source and target element IDs are required" ELSE ""
      [] cmd = "browser_press_key" ->
            IF Falsy(a[1]) THEN "Key parameter is required" ELSE ""
      [] cmd = "browser_key_combination" ->
            IF Falsy(a[1]) THEN "Keys parameter is required" ELSE ""
      [] cmd = "browser_get_attribute" ->
            IF a[1] = None THEN "Element ID is required"
            ELSE IF Falsy(a[2]) THEN "Attribute name is required" ELSE ""
      [] cmd = "browser_switch_to_tab" ->
            IF Falsy(a[1]) THEN "Window handle is required" ELSE ""

\* An exception that leaves the command.
Exception(text) ==
    [kind |-> "raised", status |-> "", message |-> text, client |-> 0]

\* (mutation) the command goes for its client before looking at its arguments
BrowserCommand_NoCheck(t, cmd, a, ctx) ==
    /\ tasks[t].pc = "idle"
    /\ GetBrowserClientEnter(t, cmd, ctx)
    /\ UNCHANGED <<sessions, drivers, clients>>

\* A command is dispatched: its argument checks, then
\* `client = await get_browser_client(context)`.
BrowserCommand(t, cmd, a, ctx) ==
    /\ tasks[t].pc = "idle"
    /\ IF MissingArgument(cmd, a) # ""
       THEN SetTask(t, [Idle EXCEPT !.op = cmd, !.ctx = ctx,
                           !.pc = "rejected",
                           !.result = Dict("error", MissingArgument(cmd, a))])
       ELSE GetBrowserClientEnter(t, cmd, ctx)
    /\ UNCHANGED <<sessions, drivers, clients>>

\* The commands that take a screenshot after acting: all but the two that
\* only read.
ScreenshotCommands ==
    CommandNames \ {"browser_get_text", "browser_get_attribute"}

\* What client.get_screenshot() does: it returns an image, it returns None
\* (a WebDriverException, caught), or it raises (any other exception).
ScreenshotOutcomes == {"image", "none", "raises"}

\* The tail of such a command,
\*     try:    screenshot = await client.get_screenshot()
\*             if screenshot: await context.format_image_message(screenshot)
\*     except Exception: (logged)
\*     return result
\* `renders`: the host's format_image_message returns instead of raising.
AfterScreenshot(result, shot, renders) == result

CommandInvoke_DropsSessionOnFault(t, ok, shot, renders) ==
    /\ tasks[t].op \in CommandNames
    /\ tasks[t].pc = "done"
    /\ tasks[t].op \notin ScreenshotCommands => (shot = "image" /\ renders)
    /\ SetTask(t, [tasks[t] EXCEPT
                      !.pc = "finished",
                      !.result =
                          IF @.kind # "client" THEN Exception("AttributeError")
                          ELSE Dict(IF ok THEN "ok" ELSE "error", "")])
    /\ sessions' = IF tasks[t].result.kind = "client" /\ ~ok
                   THEN Del(sessions, tasks[t].session_id) ELSE sessions
    /\ UNCHANGED <<drivers, clients>>

\* get_browser_client has returned to the command, which calls the client's
\* method: a dictionary (the result of a start it ran) has no such method;
\* a client runs it on its driver and returns the method's dictionary.
CommandInvoke(t, ok, shot, renders) ==
    /\ tasks[t].op \in CommandNames
    /\ tasks[t].pc = "done"
    /\ tasks[t].op \notin ScreenshotCommands => (shot = "image" /\ renders)
    /\ SetTask(t, [tasks[t] EXCEPT
                      !.pc = "finished",
                      !.result =
                          IF @.kind # "client" THEN Exception("AttributeError")
                          ELSE IF tasks[t].op \in ScreenshotCommands
                          THEN AfterScreenshot(
                                   Dict(IF ok THEN "ok" ELSE "error", ""),
                                   shot, renders)
                          ELSE Dict(IF ok THEN "ok" ELSE "error", "")])
    /\ UNCHANGED <<sessions, drivers, clients>>

\* browser_update_state is dispatched: it has no argument to check.
BrowserUpdateState(t, ctx) ==
    /\ tasks[t].pc = "idle"
    /\ GetBrowserClientEnter(t, "browser_update_state", ctx)
    /\ UNCHANGED <<sessions, drivers, clients>>

\* What client.update_state() returns to the command: status ok with a
\* "screenshot" key (message: what get_screenshot returned) when the
\* discovery script ran (`ok`) and get_screenshot did not raise; status
\* error, without that key, otherwise.
UpdateStateDict(ok, shot) ==
    IF ok /\ shot # "raises" THEN Dict("ok", shot) ELSE Dict("error", "")

\* The list a command returns: empty, or the image message followed by the
\* text message holding the state as JSON (status: the state's status).
EmptyList == [kind |-> "list", status |-> "", message |-> "", client |-> 0]
Msgs(state) ==
    [kind |-> "list", status |-> state.status, message |-> "image,text",
     client |-> 0]

\* The body of browser_update_state after client.update_state():
\*     msgs = []
\*     try:    scn_msg = await context.format_image_message(state["screenshot"])
\*             state.pop("screenshot"); msgs.append(scn_msg); msgs.append(text)
\*     except Exception: (logged)
\*     return msgs
\* state["screenshot"] raises KeyError on a state without that key.
browser_update_state(state, renders) ==
    IF state.status = "ok" /\ renders THEN Msgs(state) ELSE EmptyList

\* get_browser_client has returned to browser_update_state.
UpdateStateInvoke(t, ok, shot, renders) ==
    /\ tasks[t].op = "browser_update_state"
    /\ tasks[t].pc = "done"
    /\ SetTask(t, [tasks[t] EXCEPT
                      !.pc = "finished",
                      !.result =
                          IF @.kind # "client" THEN Exception("AttributeError")
                          ELSE browser_update_state(UpdateStateDict(ok, shot),
                                                    renders)])
    /\ UNCHANGED <<sessions, drivers, clients>>

\* The caller takes what the command returned or raised.
CommandReturn(t) ==
    /\ tasks[t].pc \in {"rejected", "finished"}
    /\ SetTask(t, Idle)
    /\ UNCHANGED <<sessions, drivers, clients>>

\* Commands dispatched one after the other, by two kinds of caller.
NextCommands ==
    \/ \E t \in Tasks, cmd \in CommandNames, ctx \in ConcurrentContexts :
         \E a \in [1..Arity(cmd) -> ArgValues] :
            NoneRunning /\ BrowserCommand(t, cmd, a, ctx) /\ UNCHANGED pagevars
    \/ \E t \in Tasks : DetectChromeVersion(t) /\ UNCHANGED pagevars
    \/ \E t \in Tasks, o \in {"setup_failed", "ok", "primary_failed"} :
            CreateDriverPrimary(t, o) /\ UNCHANGED pagevars
    \/ \E t \in Tasks, ok \in BOOLEAN :
            CreateDriverFallback(t, ok) /\ UNCHANGED pagevars
    \/ \E t \in Tasks : RegisterClient(t) /\ UNCHANGED pagevars
    \/ \E t \in Tasks : IntegrateTabHandler(t) /\ UNCHANGED pagevars
    \/ \E t \in Tasks : CreateDriverFailed(t) /\ UNCHANGED pagevars
    \/ \E t \in Tasks, ok \in BOOLEAN, shot \in ScreenshotOutcomes,
          renders \in BOOLEAN :
            CommandInvoke(t, ok, shot, renders) /\ UNCHANGED pagevars
    \/ \E t \in Tasks, ctx \in ConcurrentContexts :
            NoneRunning /\ BrowserUpdateState(t, ctx) /\ UNCHANGED pagevars
    \/ \E t \in Tasks, ok \in BOOLEAN, shot \in ScreenshotOutcomes,
          renders \in BOOLEAN :
            UpdateStateInvoke(t, ok, shot, renders) /\ UNCHANGED pagevars
    \/ \E t \in Tasks : CommandReturn(t) /\ UNCHANGED pagevars

SpecCommands == Init /\ [][NextCommands]_vars

\* The life of a session under commands dispatched one after the other:
\* browser_start, commands that act on the client (an element command, a
\* tab command, browser_update_state) with their arguments present, the
\* tab commands creating the client's tracker, and browser_stop.
SessionCommands == {"browser_click_element", "browser_switch_to_tab"}

NextSessions ==
    \/ \E t \in Tasks, ctx \in ConcurrentContexts :
            NoneRunning /\ StartBrowser(t, ctx) /\ UNCHANGED pagevars
    \/ \E t \in Tasks, cmd \in SessionCommands, ctx \in ConcurrentContexts :
            NoneRunning /\ BrowserCommand(t, cmd, <<"v">>, ctx)
                        /\ UNCHANGED pagevars
    \/ \E t \in Tasks, ctx \in ConcurrentContexts :
            NoneRunning /\ BrowserUpdateState(t, ctx) /\ UNCHANGED pagevars
    \/ \E t \in Tasks : DetectChromeVersion(t) /\ UNCHANGED pagevars
    \/ \E t \in Tasks, o \in {"setup_failed", "ok", "primary_failed"} :
            CreateDriverPrimary(t, o) /\ UNCHANGED pagevars
    \/ \E t \in Tasks, ok \in BOOLEAN :
            CreateDriverFallback(t, ok) /\ UNCHANGED pagevars
    \/ \E t \in Tasks : RegisterClient(t) /\ UNCHANGED pagevars
    \/ \E t \in Tasks : IntegrateTabHandler(t) /\ UNCHANGED pagevars
    \/ \E t \in Tasks : CreateDriverFailed(t) /\ UNCHANGED pagevars
    \/ \E t \in Tasks, ok \in BOOLEAN, shot \in ScreenshotOutcomes,
          renders \in BOOLEAN :
            CommandInvoke(t, ok, shot, renders) /\ UNCHANGED pagevars
    \/ \E t \in Tasks, ok \in BOOLEAN, shot \in ScreenshotOutcomes,
          renders \in BOOLEAN :
            UpdateStateInvoke(t, ok, shot, renders) /\ UNCHANGED pagevars
    \/ \E t \in Tasks : CommandReturn(t) /\ UNCHANGED pagevars
    \/ \E c \in 1..MaxDrivers, ok \in BOOLEAN :
            NoneRunning /\ ensure_tab_handler(c, ok) /\ UNCHANGED pagevars
    \/ \E t \in Tasks, ctx \in ConcurrentContexts :
            NoneRunning /\ StopBrowser(t, ctx) /\ UNCHANGED pagevars
    \/ \E t \in Tasks, ok \in BOOLEAN : DriverQuit(t, ok) /\ UNCHANGED pagevars
    \/ \E t \in Tasks : StopBrowserFinish(t) /\ UNCHANGED pagevars
    \/ \E t \in Tasks :
            /\ tasks[t].op \in {"start_browser", "stop_browser"}
            /\ Return(t)
            /\ UNCHANGED pagevars

SpecSessions == Init /\ [][NextSessions]_vars

\* =================================================================
\* Properties
\* =================================================================
Started(t) == tasks[t].pc = "idle" /\ tasks'[t].pc # "idle"

RegisteredClients == {sessions[k] : k \in DOMAIN sessions}

\* C1: start_browser called for an identity that already has a Session
\* returns {status: "ok", message: "Browser is already running"} at once,
\* launches no driver and leaves the registry holding the Session that was
\* registered before.
C1_SecondStartAlreadyRunning ==
    [][\A t \in Tasks :
          (/\ Started(t)
           /\ tasks'[t].op = "start_browser"
           /\ tasks'[t].session_id \in DOMAIN sessions)
          => /\ tasks'[t].pc = "done"
             /\ tasks'[t].result = Dict("ok", "Browser is already running")
             /\ sessions' = sessions
             /\ drivers' = drivers
             /\ clients' = clients]_vars

\* A second start_browser has returned "already running"; the one driver
\* launched by the first call is still the registered Session.
C1_Witness ==
    \E t \in Tasks :
        /\ tasks[t].op = "start_browser"
        /\ tasks[t].pc = "done"
        /\ tasks[t].result = Dict("ok", "Browser is already running")
        /\ Len(drivers) = 1
        /\ sessions = [k \in {tasks[t].session_id} |-> 1]

\* A launched driver that nobody holds: it is running, was never asked to
\* quit, is not in the registry and is not about to be registered.
Orphaned(d) ==
    /\ drivers[d].state = "running"
    /\ drivers[d].quits = 0
    /\ d \notin RegisteredClients
    /\ \A t \in Tasks : ~(tasks[t].pc = "created" /\ tasks[t].client = d)

\* C2: under any interleaving of start_browser / get_browser_client calls,
\* no registry entry is overwritten by another client and no launched
\* driver is left outside the registry.
C2_NoOverwriteNoOrphan ==
    [][/\ \A k \in DOMAIN sessions :
              k \in DOMAIN sessions' => sessions'[k] = sessions[k]
       /\ \A d \in DOMAIN drivers' : ~Orphaned(d)']_vars

\* C3: start_browser on an identity without a Session, with a successful
\* launch, registers the new Session, initializes its tab tracker and
\* returns status "ok" ("Browser started successfully").
C3_StartRegistersAndInitializes ==
    \A t \in Tasks :
        (/\ tasks[t].op = "start_browser"
         /\ tasks[t].pc = "done"
         /\ tasks[t].client # 0)
        => /\ tasks[t].result = Dict("ok", "Browser started successfully")
           /\ tasks[t].session_id \in DOMAIN sessions
           /\ sessions[tasks[t].session_id] = tasks[t].client
           /\ clients[tasks[t].client].tab_handler # "None"

\* C4: get_browser_client returns the BrowserClient stored in the registry
\* under the caller's key: the one it found there, or the one it created
\* (the launch having succeeded) and registered.
C4_GetReturnsSession ==
    \A t \in Tasks :
        (/\ tasks[t].op = "get_browser_client"
         /\ tasks[t].pc = "done"
         /\ tasks[t].client # 0)
        => /\ tasks[t].result.kind = "client"
           /\ tasks[t].session_id \in DOMAIN sessions
           /\ sessions[tasks[t].session_id] = tasks[t].result.client

\* C5: after stop_browser returns, the registry holds no Session for the
\* identity, whether the driver's quit succeeded or raised.
C5_StopRemovesSession ==
    \A t \in Tasks :
        (tasks[t].op = "stop_browser" /\ tasks[t].pc = "done")
        => tasks[t].session_id \notin DOMAIN sessions

\* C6: stop_browser for an identity without a Session returns status "ok"
\* at once, calls no driver primitive and leaves the registry unchanged.
C6_StopAbsentNoOp ==
    [][\A t \in Tasks :
          (/\ Started(t)
           /\ tasks'[t].op = "stop_browser"
           /\ tasks'[t].session_id \notin DOMAIN sessions)
          => /\ tasks'[t].pc = "done"
             /\ tasks'[t].result.status = "ok"
             /\ sessions' = sessions
             /\ drivers' = drivers
             /\ clients' = clients]_vars

\* stop_browser has returned "No browser running" for one identity while
\* another identity's Session is registered.
C6_Witness ==
    \E t \in Tasks :
        /\ tasks[t].op = "stop_browser"
        /\ tasks[t].pc = "done"
        /\ tasks[t].result = Dict("ok", "No browser running")
        /\ tasks[t].session_id \notin DOMAIN sessions
        /\ DOMAIN sessions # {}

\* C7: while the HTTP status check runs, no driver is launched and the
\* registry does not change.
C7_StatusCreatesNothing ==
    [][(\E t \in Tasks : tasks[t].op = "browser_status")
          => (sessions' = sessions /\ Len(drivers') = Len(drivers))]_vars

\* The caller identity of a context: an authenticated user, or anonymous.
Authenticated(ctx) == ctx.kind = "User" /\ ctx.user # ""
Identity(ctx) == IF Authenticated(ctx) THEN <<"user", ctx.user>> ELSE <<"anonymous", "">>
Keyed(t) == tasks[t].session_id # ""

\* C8: every context without a user gets the one default key, a context
\* with a user gets a key fixed by the user's identifier, and start_browser,
\* get_browser_client and stop_browser give one context the same key.
C8_IdentityDerivation ==
    \A t \in Tasks : Keyed(t) =>
        /\ ~Authenticated(tasks[t].ctx) => tasks[t].session_id = "browser_default"
        /\ \A u \in Tasks :
              (Keyed(u) /\ Identity(tasks[u].ctx) = Identity(tasks[t].ctx))
              => tasks[u].session_id = tasks[t].session_id

\* stop_browser and start_browser hold keys for two different contexts
\* without a user, while an authenticated user's call holds another key.
C8_Witness ==
    \E t, u \in Tasks :
        /\ tasks[t].op = "start_browser" /\ tasks[t].ctx.kind = "NoUserAttr"
        /\ tasks[u].op = "stop_browser" /\ tasks[u].ctx = [kind |-> "User", user |-> ""]
        /\ Keyed(t) /\ Keyed(u)

\* C9: two calls of different identities never use the same registry key.
C9_DistinctIdentitiesDistinctKeys ==
    \A t, u \in Tasks :
        (Keyed(t) /\ Keyed(u) /\ Identity(tasks[t].ctx) # Identity(tasks[u].ctx))
        => tasks[t].session_id # tasks[u].session_id

\* C10: when create_driver fails, both the primary and the fallback
\* configuration have been attempted (and no more), and the failed start
\* has registered nothing.
C10_FallbackBeforeFailure ==
    \A t \in Tasks :
        tasks[t].pc = "create_failed"
        => /\ tasks[t].attempts = 2
           /\ tasks[t].session_id \notin DOMAIN sessions

\* ----------------------------------------------------------------- C11
NavigationOps == {"navigate_to", "go_back", "go_forward", "refresh"}
ElementOpNames ==
    {"click_element", "type_text", "hover", "right_click", "double_click",
     "set_checkbox", "select_option", "drag_and_drop", "get_text",
     "get_attribute", "scroll_to_element"}

\* The last call was a navigation that succeeded.
AfterNavigation == ret.op \in NavigationOps /\ ret.result.status = "ok"

\* C11: element IDs are invalidated by navigation: an element-addressed
\* operation that follows a successful navigate_to, go_back, go_forward or
\* refresh (no update_state in between) returns a status "error" result and
\* performs no interaction on any element.
C11_NavigationInvalidatesIds ==
    [][(AfterNavigation /\ ret'.op \in ElementOpNames)
          => (ret'.result.status = "error" /\ ret'.acts = <<>>)]_vars

\* ----------------------------------------------------------------- C12
\* C12: for two discovery passes on the same document with a DOM change
\* between them, every ID the first pass assigned resolves to nothing after
\* the second pass.
C12_SecondPassSupersedes ==
    [][(/\ ret'.op = "update_state"
        /\ ActivePage.has_table
        /\ ActivePage'.url = ActivePage.url
        /\ ActivePage'.table # ActivePage.table)
          => \A id \in ElementIds :
                id + 1 \in DOMAIN ActivePage.table
                    => Lookup(ActivePage', id).elem = 0]_vars

\* ----------------------------------------------------------------- C13
\* The operations that address one element by its ID.
AddressingOps ==
    (ElementOpNames \ {"drag_and_drop"}) \cup {"click_and_switch_if_new_tab"}

\* The ID is not a key of the element table of this document: never
\* assigned, table rebuilt without it, or no table since the document loaded.
Unresolved(p, id) == Lookup(p, id).elem = 0

IdentifiesId(message, id) ==
    message \in {NotFound(id), NotFound(id) \o " or not a checkbox",
                 JavascriptException(id)}

\* C13: an element-addressed operation given an ID that is not in the
\* current element table returns a status "error" result whose message names
\* the ID, lets no exception out, acts on no element and leaves the tab
\* tracker (and the windows) as they were.
C13_MissingIdIsError ==
    [][(/\ ret' # ret
        /\ ret'.op \in AddressingOps
        /\ Unresolved(ActivePage, ret'.id))
          => (/\ ret'.result.status = "error"
              /\ IdentifiesId(ret'.result.message, ret'.id)
              /\ ret'.acts = <<>>
              /\ tracker' = tracker
              /\ browser' = browser)]_vars

\* The tracker's own click operation has reported a missing ID on a
\* document that has a table.
C13_Witness ==
    /\ ret.op = "click_and_switch_if_new_tab"
    /\ ActivePage.has_table
    /\ Unresolved(ActivePage, ret.id)
    /\ ret.result.message = NotFound(ret.id)

\* ----------------------------------------------------------------- C14
\* C14: set_checkbox on a checkbox clicks only when the checkbox's state
\* differs from the requested one, leaves the checkbox in the requested
\* state and returns "ok"; repeated with the same arguments it clicks
\* nothing and returns "ok" again.
C14_SetCheckboxIdempotent ==
    [][LET e == Lookup(ActivePage, ret'.id).elem
           want == ret'.arg = "True"
       IN  (/\ ret' # ret
            /\ ret'.op = "set_checkbox"
            /\ e # 0
            /\ KindOf(e) = "checkbox")
              => (/\ ret'.result.status = "ok"
                  /\ (ret'.acts # <<>>) <=> ((e \in ActivePage.checked) # want)
                  /\ Len(ret'.acts) <= 1
                  /\ (e \in ActivePage'.checked) <=> want
                  /\ (/\ ret.op = "set_checkbox"
                      /\ ret.id = ret'.id
                      /\ ret.arg = ret'.arg
                      /\ ret.result.status = "ok") => ret'.acts = <<>>)]_vars

\* set_checkbox(id, True) has returned "ok" without clicking, the checkbox
\* being checked.
C14_Witness ==
    LET e == Lookup(ActivePage, ret.id).elem
    IN  /\ ret.op = "set_checkbox"
        /\ ret.arg = "True"
        /\ ret.result.status = "ok"
        /\ ret.acts = <<>>
        /\ e # 0
        /\ KindOf(e) = "checkbox"
        /\ e \in ActivePage.checked

\* ----------------------------------------------------------------- C15
\* A drag_and_drop call has just returned; its target ID is t.
DragReturned(t) ==
    /\ ret' # ret
    /\ ret'.op = "drag_and_drop"
    /\ ret'.arg = ToString(t)

\* C15: drag_and_drop is all-or-nothing: when the source ID or the target
\* ID does not resolve it returns status "error" with the message "Source or
\* target element not found" and drags nothing; it drags only when both
\* resolve.
C15_DragAllOrNothing ==
    [][\A t \in ElementIds :
          DragReturned(t)
            => IF Unresolved(ActivePage, ret'.id) \/ Unresolved(ActivePage, t)
               THEN /\ ret'.result =
                           Result("error", "Source or target element not found")
                    /\ ret'.acts = <<>>
               ELSE ret'.acts # <<>> => ret'.result.status = "ok"]_vars

\* C15 (amended): when the source ID or the target ID does not resolve,
\* drag_and_drop returns status "error" and drags nothing; the message is
\* "Source or target element not found" on a document that has an element
\* table and the script error's text on a document that has none.  It drags
\* only when both resolve.
C15_DragAllOrNothing_Amended ==
    [][\A t \in ElementIds :
          DragReturned(t)
            => IF Unresolved(ActivePage, ret'.id) \/ Unresolved(ActivePage, t)
               THEN /\ ret'.result.status = "error"
                    /\ ret'.result.message =
                          IF ActivePage.has_table
                          THEN "Source or target element not found"
                          ELSE JavascriptException(ret'.id)
                    /\ ret'.acts = <<>>
               ELSE ret'.acts # <<>> => ret'.result.status = "ok"]_vars

\* drag_and_drop has refused a drag whose source resolves and whose target
\* does not.
C15_Witness ==
    /\ ret.op = "drag_and_drop"
    /\ ret.result.message = "Source or target element not found"
    /\ ret.acts = <<>>
    /\ ~Unresolved(ActivePage, ret.id)
    /\ \E t \in ElementIds : ret.arg = ToString(t) /\ Unresolved(ActivePage, t)

\* ----------------------------------------------------------------- C17
\* BrowserClient.select_option(id, None, None) has just returned.
SelectWithoutOptionReturned ==
    /\ ret' # ret
    /\ ret'.op = "select_option"
    /\ ret'.arg = None \o "/" \o None

SomeArgumentMissing(cmd, a) ==
    IF cmd = "browser_select_option"
    THEN a[1] = None \/ (a[2] = None /\ a[3] = None)
    ELSE \E i \in 1..Arity(cmd) : a[i] = None

\* C16: a command dispatched without a required argument returns status
\* "error" at once: it derives no session key, resolves or creates no
\* Session, and reaches no call on a driver.
C16_MissingArgumentBeforeDriver ==
    [][\A t \in Tasks, cmd \in CommandNames, ctx \in ConcurrentContexts :
         \A a \in [1..Arity(cmd) -> ArgValues] :
            (BrowserCommand(t, cmd, a, ctx) /\ SomeArgumentMissing(cmd, a))
              => (/\ tasks'[t].pc = "rejected"
                  /\ tasks'[t].result.kind = "dict"
                  /\ tasks'[t].result.status = "error"
                  /\ tasks'[t].session_id = ""
                  /\ tasks'[t].client = 0
                  /\ UNCHANGED <<sessions, drivers, clients, pagevars>>)]_vars

\* A command has been rejected for a missing argument while the registry
\* holds a Session it could have resolved.
C16_Witness ==
    \E t \in Tasks :
        /\ tasks[t].pc = "rejected"
        /\ tasks[t].op = "browser_switch_to_tab"
        /\ tasks[t].result = Dict("error", "Window handle is required")
        /\ DOMAIN sessions # {}

\* ----------------------------------------------------------------- C18
\* C18: original_window is a member of known_windows unless the original
\* window has been closed by close_current_tab while it was the active
\* window: nothing else takes it out of known_windows.
C18_OriginalKnown ==
    [][(/\ tracker.exists
        /\ tracker.original_window \in tracker.known_windows
        /\ tracker'.original_window \notin tracker'.known_windows)
          => (/\ ret'.op = "close_current_tab"
              /\ browser.active = tracker.original_window
              /\ ~IsOpen(browser', tracker.original_window))]_vars

\* C18 (amended): original_window is a member of known_windows for as long
\* as the original window is open, whoever closes it.
C18_OriginalKnown_Amended ==
    (tracker.exists /\ IsOpen(browser, tracker.original_window))
        => tracker.original_window \in tracker.known_windows

\* switch_to_newest_tab has replaced known_windows by the live set, which
\* holds the original window and another one.
C18_Witness ==
    /\ tracker.exists
    /\ ret.op = "switch_to_newest_tab"
    /\ IsOpen(browser, tracker.original_window)
    /\ tracker.known_windows = LiveSet(browser)
    /\ Cardinality(tracker.known_windows) > 1

\* ----------------------------------------------------------------- C19
TabOps ==
    {"detect_new_tabs", "get_all_tabs", "switch_to_tab", "switch_to_newest_tab",
     "switch_to_original_tab", "close_current_tab",
     "click_and_switch_if_new_tab"}

\* C19: whenever a public operation of the tab tracker returns,
\* known_windows is the set of windows that are open.
C19_ReconciledOnReturn ==
    [][(/\ ret' # ret
        /\ ret'.op \in TabOps
        /\ ret'.result.status # "raised")
          => tracker'.known_windows = LiveSet(browser')]_vars

\* ----------------------------------------------------------------- C20
\* C20: detect_new_tabs takes the open windows that are not known: if there
\* are any, known_windows becomes the set of open windows and the handle
\* returned is one of the new ones; if there are none, it returns None and
\* known_windows stays as it was.  The windows, the active one included, and
\* original_window are untouched.
C20_DetectNewTabs ==
    [][\A pick \in {0} \cup Handles :
          DetectNewTabs(pick)
            => LET new_windows == LiveSet(browser) \ tracker.known_windows
               IN  /\ IF new_windows # {}
                      THEN /\ tracker'.known_windows = LiveSet(browser)
                           /\ ret'.result.handle \in new_windows
                      ELSE /\ tracker'.known_windows = tracker.known_windows
                           /\ ret'.result.handle = 0
                   /\ ret'.result.status = "value"
                   /\ browser' = browser
                   /\ tracker'.original_window = tracker.original_window]_vars

\* detect_new_tabs has reported one of two windows that were new to it.
C20_Witness ==
    /\ ret.op = "detect_new_tabs"
    /\ ret.result.handle # 0
    /\ ret.result.handle \in tracker.known_windows
    /\ Cardinality(tracker.known_windows) > 2
    /\ tracker.known_windows = LiveSet(browser)

\* ----------------------------------------------------------------- C21
\* C21: get_all_tabs leaves the driver's current window handle what it was
\* before the call, also when switching to a window or reading it fails in
\* the middle of the enumeration.
C21_GetAllTabsRestoresActive ==
    [][\A at \in 0..MaxWindows, how \in {"switch", "read"} :
          GetAllTabs(at, how) => browser'.active = browser.active]_vars

\* ----------------------------------------------------------------- C22
\* C22: switch_to_tab(handle) on an open window makes it the active window
\* and returns status "ok" with that handle; on a handle that is not open it
\* returns status "error" and leaves the windows, the active one included,
\* and known_windows as they were.
C22_SwitchToTab ==
    [][\A h \in Handles :
          SwitchToTab(h)
            => IF IsOpen(browser, h)
               THEN /\ ret'.result.status = "ok"
                    /\ ret'.result.handle = h
                    /\ browser'.active = h
                    /\ browser'.windows = browser.windows
               ELSE /\ ret'.result.status = "error"
                    /\ browser' = browser
                    /\ tracker' = tracker]_vars

\* switch_to_tab has been refused on a handle that was closed while other
\* windows stay open.
C22_Witness ==
    /\ ret.op = "switch_to_tab"
    /\ ret.result.status = "error"
    /\ ret.arg \in {ToString(h) : h \in tracker.known_windows \ LiveSet(browser)}
    /\ IsOpen(browser, browser.active)

\* ----------------------------------------------------------------- C23
\* The last handle the driver lists that known_windows does not hold.
LastUnknown(b, k) ==
    LET unknown == {i \in DOMAIN b.windows : b.windows[i] \notin k.known_windows}
    IN  b.windows[CHOOSE i \in unknown : \A j \in unknown : j <= i]

\* C23: when the driver lists more windows than are known,
\* switch_to_newest_tab makes the last listed window that is not known the
\* active one and returns its handle; otherwise it returns a status "info"
\* result for the current window and leaves the active window alone.  Either
\* way known_windows is the set of open windows afterwards.
C23_SwitchToNewestTab ==
    [][SwitchToNewestTab
          => /\ IF Len(browser.windows) > Cardinality(tracker.known_windows)
                THEN /\ ret'.result.status = "ok"
                     /\ ret'.result.handle = LastUnknown(browser, tracker)
                     /\ browser'.active = LastUnknown(browser, tracker)
                ELSE /\ ret'.result.status = "info"
                     /\ ret'.result.handle = browser.active
                     /\ browser'.active = browser.active
             /\ tracker'.known_windows = LiveSet(browser')]_vars

\* ----------------------------------------------------------------- C24
\* C24: switch_to_original_tab goes for the handle the tracker took when it
\* was created, which no step changes; once that window is closed the
\* result is status "error" and carries no handle.
C24_SwitchToOriginalTab ==
    [][/\ tracker.exists => tracker'.original_window = tracker.original_window
       /\ SwitchToOriginalTab
            => IF IsOpen(browser, tracker.original_window)
               THEN /\ ret'.result.status = "ok"
                    /\ ret'.result.handle = tracker.original_window
                    /\ browser'.active = tracker.original_window
               ELSE /\ ret'.result.status = "error"
                    /\ ret'.result.handle = 0
                    /\ browser' = browser]_vars

\* switch_to_original_tab has been refused: the original window is closed,
\* another window is open and active.
C24_Witness ==
    /\ ret.op = "switch_to_original_tab"
    /\ ret.result.status = "error"
    /\ ~IsOpen(browser, tracker.original_window)
    /\ IsOpen(browser, browser.active)

\* ----------------------------------------------------------------- C25
\* C25: close_current_tab closes the active window and takes its handle out
\* of known_windows.  When it was the only window the result is status
\* "warn" without a handle; otherwise the result is status "ok" with the
\* handle of a window that stays open, which is the active window and a
\* member of known_windows afterwards.
C25_CloseCurrentTab ==
    [][(CloseCurrentTab /\ IsOpen(browser, browser.active))
          => /\ ~IsOpen(browser', browser.active)
             /\ browser.active \notin tracker'.known_windows
             /\ IF Len(browser.windows) = 1
                THEN /\ ret'.result.status = "warn"
                     /\ ret'.result.handle = 0
                ELSE /\ ret'.result.status = "ok"
                     /\ ret'.result.handle \in LiveSet(browser) \ {browser.active}
                     /\ browser'.active = ret'.result.handle
                     /\ ret'.result.handle \in tracker'.known_windows]_vars

\* ----------------------------------------------------------------- C26
\* The element ID resolves to an element of the active window's document.
Resolvable(b, id) ==
    /\ IsOpen(b, b.active)
    /\ ~Lookup(b.pages[b.active], id).raised
    /\ Lookup(b.pages[b.active], id).elem \in b.pages[b.active].dom

\* C26: click_and_switch_if_new_tab on a resolvable element.  When the click
\* opens a window, that window is the active one afterwards and the result
\* is status "ok" with new_tab_opened true, the new window's handle and the
\* tracker's original window as original_handle; when it opens none, the
\* result is status "ok" with new_tab_opened false and the handle of the
\* active window, which has not changed.
C26_ClickAndSwitch ==
    [][\A id \in ElementIds, opens \in BOOLEAN :
          (ClickAndSwitchIfNewTab(id, opens) /\ Resolvable(browser, id))
            => /\ ret'.result.status = "ok"
               /\ ret'.result.handle = browser'.active
               /\ IF opens
                  THEN /\ ret'.result.new_tab_opened = "True"
                       /\ browser'.active \in LiveSet(browser') \ LiveSet(browser)
                       /\ ret'.result.original_handle = tracker.original_window
                  ELSE /\ ret'.result.new_tab_opened = "False"
                       /\ browser'.active = browser.active
                       /\ LiveSet(browser') = LiveSet(browser)]_vars

\* The click has opened a window and the tracker has switched to it,
\* reporting its original window.
C26_Witness ==
    /\ ret.op = "click_and_switch_if_new_tab"
    /\ ret.result.new_tab_opened = "True"
    /\ ret.result.handle = browser.active
    /\ ret.result.original_handle = tracker.original_window
    /\ ret.result.original_handle # 0
    /\ Cardinality(LiveSet(browser)) > 1

\* ----------------------------------------------------------------- C27
\* C27: a fault of a driver call inside an operation of the tab tracker
\* comes back as a status "error" result; no operation ends with an
\* exception.
C27_TabFaultsCaught ==
    ret.op \in TabOps => ret.result.status # "raised"

\* ----------------------------------------------------------------- C28
\* C28: whatever the registry holds and whatever the launch and the driver
\* do, a command ends by returning a dictionary with a status; it never
\* ends with an exception.
C28_EveryCommandReturnsTagged ==
    \A t \in Tasks :
        (tasks[t].op \in CommandNames /\ tasks[t].pc \in {"rejected", "finished"})
            => (tasks[t].result.kind = "dict" /\ tasks[t].result.status # "")

\* ----------------------------------------------------------------- C29
\* C29: a command that takes a screenshot after acting returns the result
\* of its primary operation whatever becomes of the screenshot and of its
\* rendering; browser_update_state returns the state client.update_state()
\* produced, with that state's status.
C29_ScreenshotNeverMasks ==
    [][\A t \in Tasks, ok \in BOOLEAN, shot \in ScreenshotOutcomes,
          renders \in BOOLEAN :
          /\ (CommandInvoke(t, ok, shot, renders)
                /\ tasks[t].op \in ScreenshotCommands
                /\ tasks[t].result.kind = "client")
               => tasks'[t].result = Dict(IF ok THEN "ok" ELSE "error", "")
          /\ (UpdateStateInvoke(t, ok, shot, renders)
                /\ tasks[t].result.kind = "client")
               => tasks'[t].result.status = UpdateStateDict(ok, shot).status]_vars

\* ----------------------------------------------------------------- C30
\* The step is stop_browser deleting the entry of session sid.
StopRemoves(sid) ==
    \E t \in Tasks :
        /\ StopBrowserFinish(t)
        /\ tasks[t].op = "stop_browser"
        /\ tasks[t].session_id = sid

C31_TextTakesPrecedence ==
    [][\A id \in ElementIds :
          LET l == Lookup(ActivePage, id)
          IN  (/\ SelectOption(id, "Two", "2")
               /\ ~l.raised
               /\ l.elem \in ActivePage.dom
               /\ KindOf(l.elem) = "select")
                => /\ ret'.acts = <<Act("select_by_visible_text", l.elem, "Two")>>
                   /\ ret'.result.status = "ok"]_vars

\* select_option has run with both options on a <select> element.
C31_Witness ==
    /\ ret.op = "select_option"
    /\ ret.arg = "Two" \o "/" \o "2"
    /\ ret.result.status = "ok"
    /\ Len(ret.acts) = 1
    /\ KindOf(ret.acts[1].elem) = "select"

\* ----------------------------------------------------------------- C32
\* C32: key_combination on the string "t1+t2+..." issues the key events it
\* issues on the list [t1, t2, ...]; these are a key-down per token in
\* order, then the key-ups in the reverse order, a token that names a key of
\* the map in any case standing for that key and any other token for
\* itself.
C32_KeyCombination ==
    [][\A l \in KeyLists :
          /\ (KeyCombination(Str(join(l)), TRUE) /\ l # <<>>)
               => ret'.acts = key_combination(ActivePage, List(l), TRUE).acts
          /\ (KeyCombination(List(l), TRUE) /\ l # <<>>)
               => ret'.acts =
                    [i \in 1..Len(l) |-> Act("key_down", 0, KeyOf(l[i]))]
                    \o [i \in 1..Len(l) |->
                           Act("key_up", 0, KeyOf(l[Len(l) + 1 - i]))]]_vars

\* ----------------------------------------------------------------- C33
\* C33: the list get_all_tabs returns holds one entry per open window, in
\* the order the driver lists them, and is_current is true in one entry,
\* that of the window that was active before the call.
C33_GetAllTabsList ==
    [][\A at \in 0..MaxWindows, how \in {"switch", "read"} :
          (GetAllTabs(at, how) /\ ret'.result.status = "value")
            => LET tabs == ret'.result.tabs
               IN  /\ Len(tabs) = Len(browser'.windows)
                   /\ \A i \in DOMAIN tabs :
                         /\ tabs[i].handle = browser'.windows[i]
                         /\ tabs[i].is_current <=> (tabs[i].handle = browser.active)
                   /\ Cardinality({i \in DOMAIN tabs : tabs[i].is_current}) = 1]_vars

\* get_all_tabs has listed three windows, the second of them the active one.
C33_Witness ==
    /\ ret.op = "get_all_tabs"
    /\ ret.result.status = "value"
    /\ Len(ret.result.tabs) = 3
    /\ ret.result.tabs[2].is_current
    /\ ~ret.result.tabs[1].is_current

\* ----------------------------------------------------------------- C34
\* C34: when start_browser returns status "error", the registry holds no
\* Session under the key of the call (calls run one after the other, so a
\* Session found there was registered by this call).
C34_FailedStartRegistersNothing ==
    \A t \in Tasks :
        (/\ tasks[t].op = "start_browser"
         /\ tasks[t].pc = "done"
         /\ tasks[t].result.status = "error")
        => tasks[t].session_id \notin DOMAIN sessions

\* ----------------------------------------------------------------- C35
\* C35: at the step at which start_browser returns status "ok", the
\* registry holds a Session under the key of the call and the driver of
\* that Session has not been asked to quit, whatever a concurrent
\* stop_browser is doing.
C35_OkStartHasLiveSession ==
    [][\A t \in Tasks :
          (/\ tasks[t].pc # "done"
           /\ tasks'[t].pc = "done"
           /\ tasks'[t].op = "start_browser"
           /\ tasks'[t].result.status = "ok")
          => /\ tasks'[t].session_id \in DOMAIN sessions'
             /\ drivers'[sessions'[tasks'[t].session_id]].quits = 0]_vars

\* ----------------------------------------------------------------- C36
\* C36: when a second stop_browser for a key starts while the first is
\* waiting for the driver's quit, the driver gets one quit call, both stops
\* return status "ok" and the entry is deleted once.
C36_OverlappingStops ==
    \A t, u \in Tasks :
        (/\ t # u
         /\ tasks[t].op = "stop_browser" /\ tasks[u].op = "stop_browser"
         /\ tasks[t].pc = "done" /\ tasks[u].pc = "done"
         /\ tasks[t].client # 0 /\ tasks[t].client = tasks[u].client)
        => /\ drivers[tasks[t].client].quits = 1
           /\ tasks[t].result.status = "ok"
           /\ tasks[u].result.status = "ok"

\* ----------------------------------------------------------------- C37
\* C37: after switch_to_tab(h) has returned status "ok", h is a member of
\* known_windows.
C37_SwitchedToIsKnown ==
    [][\A h \in Handles :
          (SwitchToTab(h) /\ ret'.result.status = "ok")
            => h \in tracker'.known_windows]_vars

\* ----------------------------------------------------------------- C38
\* C38: whenever switch_to_newest_tab is called while a live window is not
\* in known_windows, the call switches to such a window; it does not answer
\* "No new tab found".
C38_NoSilentAbsorb ==
    [][(SwitchToNewestTab
        /\ \E i \in 1..Len(browser.windows) :
               browser.windows[i] \notin tracker.known_windows)
         => /\ ret'.result.status = "ok"
            /\ browser'.active \notin tracker.known_windows]_vars

\* ----------------------------------------------------------------- C39
\* C39: once a tracker has been constructed, no operation (ensure_tab_handler
\* again, a tab operation, an element click, update_state, windows opening or
\* closing) replaces it or changes its original_window.
C39_TrackerBuiltOnce ==
    [][tracker.exists =>
          /\ tracker'.exists
          /\ tracker'.original_window = tracker.original_window]_vars

\* A tab operation has moved the driver away from the tracker's original
\* window: a tracker built now would record another original_window.
C39_Witness ==
    /\ tracker.exists
    /\ ret.op \in {"switch_to_tab", "switch_to_newest_tab",
                   "click_and_switch_if_new_tab"}
    /\ ret.result.status = "ok"
    /\ IsOpen(browser, browser.active)
    /\ browser.active # tracker.original_window

\* ----------------------------------------------------------------- C40
\* C40: get_attribute(id, name) answers "Element id not found" only when id
\* does not resolve in the element table; for every id that resolves to an
\* element it returns status "ok", whether or not the element carries the
\* attribute.
C40_GetAttributeOnResolved ==
    [][\A id \in ElementIds, name \in AttributeNames :
          GetAttribute(id, name) =>
             LET l == Lookup(ActivePage, id)
             IN  /\ (ret'.result = Result("error", NotFound(id)))
                        => (~l.raised /\ l.elem = 0)
                 /\ (~l.raised /\ l.elem # 0) => ret'.result.status = "ok"]_vars

====
